---- MODULE Spec2Model ----
(***************************************************************************)
(* Engagement Concordance Score: the aggregation engine of                 *)
(* src/engagement_concordance_score.py as a state machine.                 *)
(*                                                                         *)
(* Numbers.  Scores are Python floats in the source.  Here a score is an   *)
(* integer number of hundredths (0.42 is 42), a weight an integer number   *)
(* of tenths (0.6 is 6), so score * weight is an integer number of         *)
(* thousandths and the arithmetic is exact.  The quotient                  *)
(* weighted_sum / total_weight is kept as the pair [num, den] and compared *)
(* by cross multiplication; IEEE-754 rounding of the source's float        *)
(* operations is not modelled.                                             *)
(***************************************************************************)
EXTENDS Integers, Sequences, FiniteSets, TLC

\* ------------------------------------------------------------------ bounds
\* Number of the built-in models (in declaration order) that are registered.
NumModels == 4

\* Longest tweet_ids list handed to analyze_tweets_batch.
MaxBatch == 2

\* --------------------------------------------------------- configuration
\* subprocess.run(..., timeout=30)
TIMEOUT == 30

\* risk_factors[:3]
TopN == 3

\* 'score': None
None == -1

\* Hundredths per unit of score.
Hundredths == 10 * 10

\* Keys of self.model_paths in declaration (dict insertion) order.
BuiltinOrder ==
    << "hyperbole_falsehood", "clickbait", "engagement_mismatch",
       "content_recycling", "coordinated_network", "emotive_manipulation",
       "rapid_engagement_spike", "generic_comment", "authority_signal",
       "reply_bait" >>

\* A path added to model_paths after construction (test_model_loading_robustness):
\* it has no entry in weights, analysis_methods or score_keys.
ExtraModel == "nonexistent_model"

\* self.weights, in tenths.
weights ==
    [ hyperbole_falsehood |-> 6, clickbait |-> 8, engagement_mismatch |-> 10,
      content_recycling |-> 9, coordinated_network |-> 10,
      emotive_manipulation |-> 6, rapid_engagement_spike |-> 5,
      generic_comment |-> 6, authority_signal |-> 7, reply_bait |-> 8 ]

\* self.analysis_methods
analysis_methods ==
    [ hyperbole_falsehood |-> "simple_score", clickbait |-> "simple_score",
      engagement_mismatch |-> "simple_score", content_recycling |-> "simple_score",
      coordinated_network |-> "simple_score", emotive_manipulation |-> "simple_score",
      rapid_engagement_spike |-> "simple_score", generic_comment |-> "simple_score",
      authority_signal |-> "simple_score", reply_bait |-> "simple_score" ]

\* self.score_keys
score_keys ==
    [ hyperbole_falsehood |-> "manipulation_score", clickbait |-> "clickbait_score",
      engagement_mismatch |-> "mismatch_score", content_recycling |-> "recycling_score",
      coordinated_network |-> "coordination_score",
      emotive_manipulation |-> "manipulation_score",
      rapid_engagement_spike |-> "spike_score",
      generic_comment |-> "generic_content_score",
      authority_signal |-> "authority_score", reply_bait |-> "reply_bait_score" ]

\* ------------------------------------------------------ float(stdout.strip())
Whitespace == {" ", "\n", "\t", "\r"}

DigitVal ==
    [ c \in {"0", "1", "2", "3", "4", "5", "6", "7", "8", "9"} |->
        CASE c = "0" -> 0 [] c = "1" -> 1 [] c = "2" -> 2 [] c = "3" -> 3
          [] c = "4" -> 4 [] c = "5" -> 5 [] c = "6" -> 6 [] c = "7" -> 7
          [] c = "8" -> 8 [] c = "9" -> 9 ]

RECURSIVE LStrip(_)
LStrip(s) ==
    IF s # <<>> /\ Head(s) \in Whitespace THEN LStrip(Tail(s)) ELSE s

RECURSIVE RStrip(_)
RStrip(s) ==
    IF s # <<>> /\ s[Len(s)] \in Whitespace
    THEN RStrip(SubSeq(s, 1, Len(s) - 1)) ELSE s

\* str.strip(): surrounding whitespace removed, inner characters kept.
Strip(s) == RStrip(LStrip(s))

AllDigits(s) == \A i \in 1..Len(s) : s[i] \in DOMAIN DigitVal

RECURSIVE DigitsValue(_)
DigitsValue(s) ==
    IF s = <<>> THEN 0
    ELSE 10 * DigitsValue(SubSeq(s, 1, Len(s) - 1)) + DigitVal[s[Len(s)]]

\* Value, in hundredths, of the fraction digits d1 d2 (literals of the model
\* carry at most two fraction digits, so the value is exact).
FractionValue(s) ==
    IF Len(s) = 0 THEN 0
    ELSE IF Len(s) = 1 THEN 10 * DigitVal[s[1]]
    ELSE 10 * DigitVal[s[1]] + DigitVal[s[2]]

\* float(text): decimal literals [sign] digits [. digits]; anything else
\* raises ValueError (ok = FALSE).  The value is in hundredths.
ParseFloat(text) ==
    LET signed  == text # <<>> /\ Head(text) \in {"+", "-"}
        neg     == text # <<>> /\ Head(text) = "-"
        body    == IF signed THEN Tail(text) ELSE text
        dots    == {i \in 1..Len(body) : body[i] = "."}
        dot     == IF dots = {} THEN Len(body) + 1
                   ELSE CHOOSE i \in dots : \A j \in dots : i <= j
        intpart == SubSeq(body, 1, dot - 1)
        frac    == SubSeq(body, dot + 1, Len(body))
        ok      == /\ Cardinality(dots) <= 1
                   /\ AllDigits(intpart) /\ AllDigits(frac)
                   /\ Len(intpart) + Len(frac) >= 1
                   /\ Len(frac) <= 2
        mag     == DigitsValue(intpart) * Hundredths + FractionValue(frac)
    IN  IF ok THEN [ok |-> TRUE, value |-> IF neg THEN 0 - mag ELSE mag]
        ELSE [ok |-> FALSE, value |-> 0]

\* ------------------------------------------------------------- environment
\* What the file system shows for a model path when load_models looks at it.
DiskStates == {"no_directory", "no_script", "script"}

\* Standard outputs a scorer process may write (sequences of characters).
Stdouts ==
    { << "0", ".", "4", "2", "\n" >>,
      << "1", ".", "5" >>,
      << "n", "/", "a" >>,
      << "0", ".", "5" >>,
      << "0", ".", "6" >>,
      << " ", "0", ".", "8", " " >> }

\* One execution of a scorer process: how long it runs, its exit status and
\* its two output streams.
ProcessRuns ==
    { [duration |-> 1, returncode |-> 0, stdout |-> out, stderr |-> ""] :
         out \in Stdouts }
    \cup { [duration |-> 1, returncode |-> 1, stdout |-> <<>>,
            stderr |-> "Traceback"] }
    \cup { [duration |-> TIMEOUT + 1, returncode |-> 0,
            stdout |-> << "0", ".", "6" >>, stderr |-> ""] }

TweetIds == {"1233064764357726209"}

\* -------------------------------------------------------------------- state
VARIABLES
    pc,            \* position of the caller: "new", "ready", "loop", "waiting", "returned", "raised"
    disk,          \* model name -> DiskStates, as load_models finds it
    model_paths,   \* keys of self.model_paths, in insertion order
    models,        \* self.models: sequence of [model, loaded, error] in insertion order
    tweet_id,      \* argument of the running analyze_tweet_comprehensive call
    idx,           \* position of the for loop in self.models
    total_weight,  \* local of analyze_tweet_comprehensive (tenths)
    weighted_sum,  \* local of analyze_tweet_comprehensive (thousandths)
    results,       \* the results dict being built / returned
    invocations,   \* what the running call did to reach each loaded model's scorer, in order
    batch          \* analyze_tweets_batch: [tweet_ids, at, rows, calls]; idle outside a batch

vars == << pc, disk, model_paths, models, tweet_id, idx, total_weight,
           weighted_sum, results, invocations, batch >>

\* ------------------------------------------------------------------ helpers
RECURSIVE SumSeq(_)
SumSeq(s) == IF s = <<>> THEN 0 ELSE Head(s) + SumSeq(Tail(s))

Keys(d) == {d[i].model : i \in 1..Len(d)}

\* d[key] for a dict kept as a sequence of entries with a model field.
Lookup(d, key) == d[CHOOSE i \in 1..Len(d) : d[i].model = key]

\* Slip: a new key is put in front of the ones already there.
DictSet_Prepend(d, key, entry) ==
    IF key \in Keys(d)
    THEN [i \in 1..Len(d) |-> IF d[i].model = key THEN entry ELSE d[i]]
    ELSE << entry >> \o d

\* d[key] = entry: replaces in place, or appends a new key at the end.
DictSet(d, key, entry) ==
    IF key \in Keys(d)
    THEN [i \in 1..Len(d) |-> IF d[i].model = key THEN entry ELSE d[i]]
    ELSE Append(d, entry)

NoAssessment ==
    [risk_level |-> "", risk_description |-> "", top_risk_factors |-> <<>>,
     composite_score |-> [num |-> 0, den |-> 1]]

NoSummary ==
    [models_analyzed |-> <<>>,
     composite_score |-> 0, risk_level |-> "",
     recommendations |-> <<>>, analysis_confidence |-> ""]

\* results = {...} at the top of analyze_tweet_comprehensive
NewResults(tid) ==
    [tweet_id |-> tid, model_results |-> <<>>,
     composite_score |-> [num |-> 0, den |-> 1],
     weighted_breakdown |-> <<>>,
     risk_assessment |-> NoAssessment, summary |-> NoSummary]

\* --------------------------------------------------------------- load_models
\* Slip: a model counts as loaded as soon as its directory exists.
LoadEntry_DirectoryOnly(model_name, found) ==
    IF found = "no_directory"
    THEN [model |-> model_name, loaded |-> FALSE, error |-> "Directory not found"]
    ELSE [model |-> model_name, loaded |-> TRUE, error |-> ""]

\* Body of the for loop of load_models for one path.
LoadEntry(model_name, found) ==
    IF found = "no_directory"
    THEN [model |-> model_name, loaded |-> FALSE, error |-> "Directory not found"]
    ELSE IF found = "no_script"
    THEN [model |-> model_name, loaded |-> FALSE, error |-> "simple_score.py not found"]
    ELSE [model |-> model_name, loaded |-> TRUE, error |-> ""]

RECURSIVE LoadInto(_, _, _)
LoadInto(registry, paths, found) ==
    IF paths = <<>> THEN registry
    ELSE LoadInto(DictSet(registry, Head(paths), LoadEntry(Head(paths), found[Head(paths)])),
                  Tail(paths), found)

\* ------------------------------------------- analyze_tweet_comprehensive
\* Slip: the range test written as 0 < score < 1.
ParsedScore_OpenRange(stdout) ==
    LET parsed == ParseFloat(Strip(stdout))
    IN  IF parsed.ok /\ 0 < parsed.value /\ parsed.value < Hundredths
        THEN parsed.value
        ELSE 0

\* try: score = float(result.stdout.strip()) ... except ValueError
ParsedScore(stdout) ==
    LET parsed == ParseFloat(Strip(stdout))
    IN  IF parsed.ok
        THEN IF 0 <= parsed.value /\ parsed.value <= Hundredths
             THEN parsed.value
             ELSE 0      \* "Invalid score range": {score_key: 0.0}
        ELSE 0           \* "Invalid score format": {score_key: 0.0}

\* Slip: a script error leaves {score_key: None} instead of 0.0.
CompletedScore_NullOnError(run) ==
    IF run.returncode = 0 THEN ParsedScore(run.stdout) ELSE None

\* if result.returncode == 0: ... else: "Script error", {score_key: 0.0}
CompletedScore(run) ==
    IF run.returncode = 0 THEN ParsedScore(run.stdout) ELSE 0

\* Time one finished subprocess.run call took: the run's own duration, or
\* the timeout when the child was killed at it.
Consumed(inv) ==
    IF inv.state = "killed" THEN TIMEOUT
    ELSE IF inv.state = "exited" THEN inv.run.duration
    ELSE 0

\* Time the scorers started so far by the running analysis have taken, up to
\* the first n invocations.
ElapsedBefore(n) ==
    SumSeq([i \in 1..(n - 1) |-> Consumed(invocations[i])])

\* Slip: one budget of 30 for the whole analysis, measured from its start.
TimedOut_SharedBudget(run) ==
    ElapsedBefore(Len(invocations)) + run.duration > TIMEOUT

\* subprocess.run(..., timeout=30) and except subprocess.TimeoutExpired
TimedOut(run) == run.duration > TIMEOUT

\* Duration of a process that does not finish on its own: beyond any time a
\* caller waits.
Forever == TIMEOUT * TIMEOUT

EndsByItself(run) == run.duration < Forever

\* Slip: subprocess.run called without timeout=30.
Reaped_NoTimeout(run) == EndsByItself(run)

\* subprocess.run gives control back: the child exited, or it was still
\* running at the timeout and was killed and waited for.
Reaped(run) == EndsByItself(run) \/ TimedOut(run)

RunScore(run) ==
    IF TimedOut(run) THEN 0 ELSE CompletedScore(run)

\* isinstance(score, (int, float)) and 0 <= score <= 1
IsValidScore(score) == score # None /\ 0 <= score /\ score <= Hundredths

\* Slip: the weight is left out of the contribution.
WeightedContribution_Unweighted(score, weight) == score

\* weighted_contribution = score * weight (thousandths)
WeightedContribution(score, weight) == score * weight

SuccessOutcome(model_name, model_result) ==
    [model |-> model_name, score |-> model_result.value,
     full_result |-> model_result, status |-> "success", error |-> ""]

FailedOutcome(model_name, model_result, status) ==
    [model |-> model_name, score |-> None,
     full_result |-> model_result, status |-> status, error |-> ""]

\* Slip: the outer handler records the status as 'failed'.
ErrorOutcome_Failed(model_name, text) ==
    [model |-> model_name, score |-> None,
     full_result |-> [key |-> "", value |-> None], status |-> "failed",
     error |-> text]

\* except Exception as e: (the outer handler of one loop iteration)
ErrorOutcome(model_name, text) ==
    [model |-> model_name, score |-> None,
     full_result |-> [key |-> "", value |-> None], status |-> "error",
     error |-> text]

\* Slip: results['model_results'] = {model_name: outcome}
Store_Reassign(model_results, model_name, outcome) == << outcome >>

\* results['model_results'][model_name] = outcome
Store(model_results, model_name, outcome) ==
    DictSet(model_results, model_name, outcome)

\* "Extract the score": what one loop iteration leaves in results and in the
\* two accumulators once model_result is known.
Extract(model_name, model_result, res, ws, tw) ==
    LET score_key == score_keys[model_name]
    IN  IF model_result.key = score_key
        THEN IF IsValidScore(model_result.value)
             THEN IF model_name \in DOMAIN weights
                  THEN LET weight == weights[model_name]
                           contribution == WeightedContribution(model_result.value, weight)
                       IN  [results |->
                              [res EXCEPT
                                 !.model_results =
                                    Store(@, model_name, SuccessOutcome(model_name, model_result)),
                                 !.weighted_breakdown =
                                    DictSet(@, model_name,
                                            [model |-> model_name,
                                             raw_score |-> model_result.value,
                                             weight |-> weight,
                                             weighted_contribution |-> contribution])],
                            weighted_sum |-> ws + contribution,
                            total_weight |-> tw + weight]
                  ELSE \* KeyError from self.weights after the success entry was stored
                       [results |->
                          [res EXCEPT !.model_results =
                             Store(@, model_name, ErrorOutcome(model_name, model_name))],
                        weighted_sum |-> ws, total_weight |-> tw]
             ELSE [results |->
                     [res EXCEPT !.model_results =
                        Store(@, model_name,
                                FailedOutcome(model_name, model_result, "invalid_score"))],
                   weighted_sum |-> ws, total_weight |-> tw]
        ELSE [results |->
                [res EXCEPT !.model_results =
                   Store(@, model_name,
                           FailedOutcome(model_name, model_result, "score_not_found"))],
              weighted_sum |-> ws, total_weight |-> tw]

\* Slip: the sum is reported without dividing by the total weight.
Composite_Undivided(ws, tw) ==
    IF tw > 0 THEN [num |-> ws, den |-> 1] ELSE [num |-> 0, den |-> 1]

\* results['composite_score']: the quotient in hundredths, as num / den.
Composite(ws, tw) ==
    IF tw > 0 THEN [num |-> ws, den |-> tw] ELSE [num |-> 0, den |-> 1]

\* c >= t for a quotient c and a threshold t in hundredths.
AtLeast(c, t) == c.num >= t * c.den

\* ------------------------------------------------------ _assess_overall_risk
\* Slip: the thresholds compared with > instead of >=.
RiskLevel_OpenBounds(c) ==
    IF c.num > 80 * c.den THEN "CRITICAL"
    ELSE IF c.num > 60 * c.den THEN "HIGH"
    ELSE IF c.num > 40 * c.den THEN "MODERATE"
    ELSE IF c.num > 20 * c.den THEN "LOW"
    ELSE "MINIMAL"

\* The if / elif chain on composite_score.
RiskLevel(c) ==
    IF AtLeast(c, 80) THEN "CRITICAL"
    ELSE IF AtLeast(c, 60) THEN "HIGH"
    ELSE IF AtLeast(c, 40) THEN "MODERATE"
    ELSE IF AtLeast(c, 20) THEN "LOW"
    ELSE "MINIMAL"

RiskDescription(level) ==
    CASE level = "CRITICAL" -> "Very high manipulation risk detected across multiple dimensions"
      [] level = "HIGH"     -> "High manipulation risk with concerning patterns"
      [] level = "MODERATE" -> "Moderate risk with some concerning indicators"
      [] level = "LOW"      -> "Low risk with minimal concerning indicators"
      [] OTHER              -> "Minimal risk, appears to be genuine engagement"

\* Slip: a score of exactly 0.5 counted as a risk factor.
IsRiskFactor_Inclusive(outcome) == outcome.status = "success" /\ outcome.score >= 50

\* model_result.get('status') == 'success' and model_result.get('score', 0) > 0.5
IsRiskFactor(outcome) == outcome.status = "success" /\ outcome.score > 50

RECURSIVE RiskFactors(_)
RiskFactors(model_results) ==
    IF model_results = <<>> THEN <<>>
    ELSE LET outcome == Head(model_results)
         IN  IF IsRiskFactor(outcome)
             THEN << [model |-> outcome.model, score |-> outcome.score,
                      weight |-> weights[outcome.model]] >>
                  \o RiskFactors(Tail(model_results))
             ELSE RiskFactors(Tail(model_results))

\* key=lambda x: x['score'] * x['weight']
Impact(factor) == factor.score * factor.weight

\* Slip: an unstable ordering that puts a later factor before its equals.
RECURSIVE InsertByImpact_TiesFirst(_, _)
InsertByImpact_TiesFirst(sorted, factor) ==
    IF sorted = <<>> THEN << factor >>
    ELSE IF Impact(Head(sorted)) > Impact(factor)
         THEN << Head(sorted) >> \o InsertByImpact_TiesFirst(Tail(sorted), factor)
         ELSE << factor >> \o sorted

\* Place of a new factor in a list already sorted: behind every factor whose
\* key is at least its own (list.sort is stable, also with reverse=True).
RECURSIVE InsertByImpact(_, _)
InsertByImpact(sorted, factor) ==
    IF sorted = <<>> THEN << factor >>
    ELSE IF Impact(Head(sorted)) >= Impact(factor)
         THEN << Head(sorted) >> \o InsertByImpact(Tail(sorted), factor)
         ELSE << factor >> \o sorted

\* risk_factors.sort(key=..., reverse=True)
RECURSIVE SortByImpact(_)
SortByImpact(factors) ==
    IF factors = <<>> THEN <<>>
    ELSE InsertByImpact(SortByImpact(SubSeq(factors, 1, Len(factors) - 1)),
                        factors[Len(factors)])

\* risk_factors[:3]
TopSlice(factors) ==
    SubSeq(factors, 1, IF Len(factors) < TopN THEN Len(factors) ELSE TopN)

_assess_overall_risk(res) ==
    LET composite_score == res.composite_score
        risk_level == RiskLevel(composite_score)
    IN  [risk_level |-> risk_level,
         risk_description |-> RiskDescription(risk_level),
         top_risk_factors |-> TopSlice(SortByImpact(RiskFactors(res.model_results))),
         composite_score |-> composite_score]

\* --------------------------------------------------------- _generate_summary
SuccessCount(model_results) ==
    Cardinality({i \in 1..Len(model_results) : model_results[i].status = "success"})

\* Slip: the triggers written as an if / elif chain.
Recommendations_Chain(c) ==
    IF AtLeast(c, 60)
    THEN << "Consider flagging for manual review", "Monitor for similar patterns" >>
    ELSE IF AtLeast(c, 40) THEN << "Review engagement patterns" >>
    ELSE IF ~AtLeast(c, 20) THEN << "Engagement appears genuine" >>
    ELSE <<>>

Recommendations(c) ==
    (IF AtLeast(c, 60)
     THEN << "Consider flagging for manual review", "Monitor for similar patterns" >>
     ELSE <<>>)
    \o (IF AtLeast(c, 40) THEN << "Review engagement patterns" >> ELSE <<>>)
    \o (IF ~AtLeast(c, 20) THEN << "Engagement appears genuine" >> ELSE <<>>)

\* Slip: the upper threshold compared with > instead of >=.
Confidence_Strict(successful_models) ==
    IF successful_models > 7 THEN "high"
    ELSE IF successful_models >= 4 THEN "medium"
    ELSE "low"

Confidence(successful_models) ==
    IF successful_models >= 7 THEN "high"
    ELSE IF successful_models >= 4 THEN "medium"
    ELSE "low"

\* f"{composite_score:.3f}": the quotient rounded to thousandths (half to even).
Format3(c) ==
    LET scaled == 10 * c.num
        q == scaled \div c.den
        r == scaled % c.den
    IN  IF 2 * r > c.den \/ (2 * r = c.den /\ q % 2 = 1) THEN q + 1 ELSE q

\* str(n) of a natural number, as a sequence of characters.
RECURSIVE FormatInt(_)
FormatInt(n) ==
    LET digit == << "0", "1", "2", "3", "4", "5", "6", "7", "8", "9" >>
    IN  IF n < 10 THEN << digit[n + 1] >>
        ELSE FormatInt(n \div 10) \o << digit[(n % 10) + 1] >>

\* Slip: the outcomes of the report are counted instead of the registry.
TotalModels_Outcomes(res, registry) == Len(res.model_results)

\* total_models = len(self.models)
TotalModels(res, registry) == Len(registry)

_generate_summary(res, registry) ==
    LET successful_models == SuccessCount(res.model_results)
        total_models == TotalModels(res, registry)
    IN  [models_analyzed |-> FormatInt(successful_models) \o << "/" >> \o FormatInt(total_models),
         composite_score |-> Format3(res.composite_score),
         risk_level |-> res.risk_assessment.risk_level,
         recommendations |-> Recommendations(res.composite_score),
         analysis_confidence |-> Confidence(successful_models)]

\* ------------------------------------------------------------ exceptions
\* What subprocess.run may raise before a process exists.
SpawnExceptions == {"FileNotFoundError", "PermissionError", "BrokenPipeError"}

\* Slip: the handlers written as "except OSError".
IsException_OnlyOSError(exc) == exc \in SpawnExceptions

\* "except Exception" (lines 213 and 260): the classes it matches.
IsException(exc) ==
    exc \in SpawnExceptions
             \cup {"KeyError", "ValueError", "TimeoutExpired", "MemoryError"}

\* ------------------------------------------------------------ state machine
\* Registries considered: the first k built-in paths (k = 0 is the empty
\* model set), optionally followed by the extra path, at most NumModels long.
Registries ==
    { SubSeq(BuiltinOrder, 1, k) : k \in 0..NumModels }
    \cup { Append(SubSeq(BuiltinOrder, 1, k), ExtraModel) : k \in 0..(NumModels - 1) }

Range(s) == {s[i] : i \in 1..Len(s)}

\* No analyze_tweets_batch call in progress.
NoBatch == [tweet_ids |-> <<>>, at |-> 0, rows |-> <<>>, calls |-> <<>>]

NoRun == [duration |-> 0, returncode |-> 0, stdout |-> <<>>, stderr |-> ""]

Init ==
    /\ pc = "new"
    /\ model_paths \in Registries
    /\ disk \in [Range(model_paths) -> DiskStates]
    /\ models = <<>>
    /\ tweet_id = ""
    /\ idx = 0
    /\ total_weight = 0
    /\ weighted_sum = 0
    /\ results = NewResults("")
    /\ invocations = <<>>
    /\ batch = NoBatch

\* __init__ reaching self.load_models()
load_models ==
    /\ pc = "new"
    /\ models' = LoadInto(models, model_paths, disk)
    /\ pc' = "ready"
    /\ UNCHANGED << disk, model_paths, tweet_id, idx, total_weight,
                    weighted_sum, results, invocations, batch >>

\* analyze_tweet_comprehensive(tweet_id) up to the for loop
EnterAnalysis(tid) ==
    /\ tweet_id' = tid
    /\ results' = NewResults(tid)
    /\ total_weight' = 0
    /\ weighted_sum' = 0
    /\ idx' = 1
    /\ invocations' = <<>>
    /\ pc' = "loop"
    /\ UNCHANGED << disk, model_paths, models, batch >>

\* A caller holding the object calls analyze_tweet_comprehensive(tweet_id).
Analyze(tid) ==
    /\ pc \in {"ready", "returned", "raised"}
    /\ EnterAnalysis(tid)

\* An exception no handler of the call matches leaves analyze_tweet_comprehensive.
Propagate ==
    /\ pc' = "raised"
    /\ UNCHANGED << disk, model_paths, models, tweet_id, idx, total_weight,
                    weighted_sum, results, invocations, batch >>

\* Slip: the process is started without being waited for (Popen for run),
\* so the loop goes on while a scorer is still running.
InLoop_NotAwaited == pc \in {"loop", "waiting"} /\ idx <= Len(models)

\* The for loop is between two iterations, or about to start one.
InLoop == pc = "loop" /\ idx <= Len(models)

\* Slip: a model found not loaded is taken out of self.models.
SkipUnloaded_Unregister ==
    /\ InLoop
    /\ ~models[idx].loaded
    /\ models' = [i \in 1..(Len(models) - 1) |->
                     IF i < idx THEN models[i] ELSE models[i + 1]]
    /\ UNCHANGED << pc, disk, model_paths, idx, tweet_id, total_weight,
                    weighted_sum, results, invocations, batch >>

\* if not model_info.get('loaded', False): continue
SkipUnloaded ==
    /\ InLoop
    /\ ~models[idx].loaded
    /\ idx' = idx + 1
    /\ UNCHANGED << pc, disk, model_paths, models, tweet_id, total_weight,
                    weighted_sum, results, invocations, batch >>

\* self.analysis_methods[model_name] raises KeyError: the outer except
LookupError ==
    /\ InLoop
    /\ models[idx].loaded
    /\ models[idx].model \notin DOMAIN analysis_methods
    /\ IF IsException("KeyError")
       THEN /\ results' = [results EXCEPT !.model_results =
                             Store(@, models[idx].model,
                                   ErrorOutcome(models[idx].model, models[idx].model))]
            /\ idx' = idx + 1
            /\ UNCHANGED << pc, disk, model_paths, models, tweet_id, total_weight,
                            weighted_sum, invocations, batch >>
       ELSE Propagate

\* Slip: the loaded mark is not looked at before running a model.
Runnable_AnyModel ==
    /\ InLoop
    /\ models[idx].model \in DOMAIN analysis_methods
    /\ analysis_methods[models[idx].model] = "simple_score"

Runnable ==
    /\ InLoop
    /\ models[idx].loaded
    /\ models[idx].model \in DOMAIN analysis_methods
    /\ analysis_methods[models[idx].model] = "simple_score"

\* One iteration that ends with model_result = {score_key: score} without
\* waiting for a process; how records why.
Settle(how, score) ==
    LET model_name == models[idx].model
        after == Extract(model_name,
                         [key |-> score_keys[model_name], value |-> score],
                         results, weighted_sum, total_weight)
    IN  /\ results' = after.results
        /\ weighted_sum' = after.weighted_sum
        /\ total_weight' = after.total_weight
        /\ invocations' = Append(invocations,
                                 [model |-> model_name, argv |-> << tweet_id >>,
                                  state |-> how, run |-> NoRun])
        /\ idx' = idx + 1
        /\ UNCHANGED << pc, disk, model_paths, models, tweet_id, batch >>

\* os.path.exists(script_path) is false at run time
ScriptMissing ==
    /\ Runnable
    /\ Settle("missing", 0)

\* subprocess.run raises something other than TimeoutExpired
SpawnFault(exc) ==
    /\ Runnable
    /\ IF IsException(exc) THEN Settle("fault", 0) ELSE Propagate

\* subprocess.run starts [sys.executable, script_path, tweet_id]
StartScorer ==
    /\ Runnable
    /\ invocations' = Append(invocations,
                             [model |-> models[idx].model, argv |-> << tweet_id >>,
                              state |-> "running", run |-> NoRun])
    /\ pc' = "waiting"
    /\ UNCHANGED << disk, model_paths, models, tweet_id, idx, total_weight,
                    weighted_sum, results, batch >>

\* subprocess.run returns or raises TimeoutExpired (the child is killed), and
\* the rest of the iteration records the outcome.
ScorerEnds(run) ==
    LET model_name == models[idx].model
        after == Extract(model_name,
                         [key |-> score_keys[model_name], value |-> RunScore(run)],
                         results, weighted_sum, total_weight)
        n == Len(invocations)
    IN  /\ pc = "waiting"
        /\ Reaped(run)
        /\ results' = after.results
        /\ weighted_sum' = after.weighted_sum
        /\ total_weight' = after.total_weight
        /\ invocations' = [invocations EXCEPT
                             ![n].state = IF TimedOut(run) THEN "killed" ELSE "exited",
                             ![n].run = run]
        /\ idx' = idx + 1
        /\ pc' = "loop"
        /\ UNCHANGED << disk, model_paths, models, tweet_id, batch >>

\* Slip: the risk assessment is made before the composite score is stored.
Finish_AssessFirst ==
    /\ pc = "loop"
    /\ idx > Len(models)
    /\ LET assessed == [results EXCEPT !.risk_assessment = _assess_overall_risk(results)]
           scored == [assessed EXCEPT
                        !.composite_score = Composite(weighted_sum, total_weight)]
       IN  results' = [scored EXCEPT !.summary = _generate_summary(scored, models)]
    /\ pc' = "returned"
    /\ UNCHANGED << disk, model_paths, models, tweet_id, idx, total_weight,
                    weighted_sum, invocations, batch >>

\* After the loop: composite score, risk assessment, summary, return.
Finish ==
    /\ pc = "loop"
    /\ idx > Len(models)
    /\ LET scored == [results EXCEPT
                        !.composite_score = Composite(weighted_sum, total_weight)]
           assessed == [scored EXCEPT !.risk_assessment = _assess_overall_risk(scored)]
       IN  results' = [assessed EXCEPT !.summary = _generate_summary(assessed, models)]
    /\ pc' = "returned"
    /\ UNCHANGED << disk, model_paths, models, tweet_id, idx, total_weight,
                    weighted_sum, invocations, batch >>

Next ==
    \/ load_models
    \/ \E tid \in TweetIds : Analyze(tid)
    \/ SkipUnloaded
    \/ LookupError
    \/ ScriptMissing
    \/ \E exc \in SpawnExceptions : SpawnFault(exc)
    \/ StartScorer
    \/ \E run \in ProcessRuns : ScorerEnds(run)
    \/ Finish

Spec == Init /\ [][Next]_vars

\* ------------------------------------------- _generate_summary called alone
\* The tests call _generate_summary on a hand-made results mapping
\* (test_summary_generation, run_basic_tests) of a constructed object.
MockStatuses == {"success", "error"}

\* model_results of a mock: up to ten outcomes that carry only a status.
MockOutcomes ==
    UNION { { [i \in 1..n |-> [model |-> BuiltinOrder[i], status |-> st[i]]] :
                st \in [1..n -> MockStatuses] } : n \in 0..Len(BuiltinOrder) }

\* composite_score values of the mocks (0.75 in both tests).
MockComposites == { [num |-> c, den |-> 1] : c \in {10, 50, 75} }

\* {'composite_score': c, 'model_results': mr}
MockResults(c, mr) == [composite_score |-> c, model_results |-> mr]

\* The same with 'risk_assessment': self._assess_overall_risk({'composite_score': c, 'model_results': {}})
MockResultsAssessed(c, mr) ==
    [composite_score |-> c, model_results |-> mr,
     risk_assessment |-> _assess_overall_risk(MockResults(c, <<>>))]

InitSummary ==
    /\ pc = "summary_call"
    /\ model_paths = BuiltinOrder
    /\ \E found \in {"script", "no_directory"} :
          /\ disk = [m \in Range(model_paths) |-> found]
          /\ models = LoadInto(<<>>, model_paths, disk)
    /\ tweet_id = ""
    /\ idx = 0
    /\ total_weight = 0
    /\ weighted_sum = 0
    /\ \E c \in MockComposites, mr \in MockOutcomes :
          results \in {MockResults(c, mr), MockResultsAssessed(c, mr)}
    /\ invocations = <<>>
    /\ batch = NoBatch

\* results['risk_assessment'] on a mapping without that key
SummaryKeyError(res) == "risk_assessment" \notin DOMAIN res

\* self._generate_summary(results): the summary is kept next to the argument,
\* or the KeyError of line 330 leaves the method.
GenerateSummary ==
    /\ pc = "summary_call"
    /\ IF SummaryKeyError(results)
       THEN /\ pc' = "raised"
            /\ UNCHANGED results
       ELSE /\ pc' = "summary_done"
            /\ results' = ("summary" :> _generate_summary(results, models)) @@ results
    /\ UNCHANGED << disk, model_paths, models, tweet_id, idx, total_weight,
                    weighted_sum, invocations, batch >>

NextSummary == GenerateSummary

SpecSummary == InitSummary /\ [][NextSummary]_vars

\* ------------------------------------- the registry of test_weight_calculation
\* patch.object(self.ecs, 'models', {...}): three loaded models.
PatchedModels ==
    << [model |-> "coordinated_network", loaded |-> TRUE, error |-> ""],
       [model |-> "emotive_manipulation", loaded |-> TRUE, error |-> ""],
       [model |-> "generic_comment", loaded |-> TRUE, error |-> ""] >>

\* The process runs of the main specification and one that prints 0.4.
ScenarioRuns ==
    ProcessRuns
    \cup { [duration |-> 1, returncode |-> 0, stdout |-> << "0", ".", "4" >>,
            stderr |-> ""] }

InitScenario ==
    /\ pc = "ready"
    /\ model_paths = BuiltinOrder
    /\ disk = [m \in Range(model_paths) |-> "script"]
    /\ models = PatchedModels
    /\ tweet_id = ""
    /\ idx = 0
    /\ total_weight = 0
    /\ weighted_sum = 0
    /\ results = NewResults("")
    /\ invocations = <<>>
    /\ batch = NoBatch

NextScenario ==
    \/ Analyze("test_tweet_id")
    \/ ScriptMissing
    \/ \E exc \in SpawnExceptions : SpawnFault(exc)
    \/ StartScorer
    \/ \E run \in ScenarioRuns : ScorerEnds(run)
    \/ Finish

SpecScenario == InitScenario /\ [][NextScenario]_vars

\* ------------------------------------------------------ analyze_tweets_batch
\* batch_analyze_tweets.analyze_tweets_batch(tweet_ids, ecs) over an
\* initialised system.  batch.at is the position of the for loop in tweet_ids,
\* batch.rows the local list `results`, and batch.calls records how each call
\* of ecs.analyze_tweet_comprehensive ended ("returned" or "raised").
BatchIds == {"1001", "1002"}

\* tweet_ids: every list of up to MaxBatch identifiers, repeats included.
BatchInputs == UNION { [1..n -> BatchIds] : n \in 0..MaxBatch }

\* The system the batch runs on has the first built-in model registered.
BatchRegistry == SubSeq(BuiltinOrder, 1, 1)

\* for model_name, model_result in analysis_result.get('model_results', {}).items():
\* the '<model>_score' columns, 0.0 for an outcome that is not 'success'.
ScoreColumns(res) ==
    [i \in 1..Len(res.model_results) |->
        [model |-> res.model_results[i].model,
         score |-> IF res.model_results[i].status = "success"
                   THEN res.model_results[i].score
                   ELSE 0]]

\* result_row built from the report of one analysis
ResultRow(tid, res) ==
    [tweet_id            |-> tid,
     composite_score     |-> res.composite_score,
     risk_level          |-> res.risk_assessment.risk_level,
     risk_description    |-> res.risk_assessment.risk_description,
     models_analyzed     |-> res.summary.models_analyzed,
     analysis_confidence |-> res.summary.analysis_confidence,
     scores              |-> ScoreColumns(res)]

\* error_row built by the except branch (models_analyzed is the integer 0)
ErrorRow(tid) ==
    [tweet_id            |-> tid,
     composite_score     |-> [num |-> 0, den |-> 1],
     risk_level          |-> "ERROR",
     risk_description    |-> "Analysis failed",
     models_analyzed     |-> << "0" >>,
     analysis_confidence |-> "ERROR",
     scores              |-> <<>>]

\* results.append(result_row)
AfterResult(rows, tid, res) == Append(rows, ResultRow(tid, res))

AfterError_Dropped(rows, tid) == rows

\* except Exception as e: ... results.append(error_row)
AfterError(rows, tid) == Append(rows, ErrorRow(tid))

InitBatch ==
    /\ pc = "batch"
    /\ model_paths = BatchRegistry
    /\ disk \in [Range(model_paths) -> DiskStates]
    /\ models = LoadInto(<<>>, model_paths, disk)
    /\ tweet_id = ""
    /\ idx = 0
    /\ total_weight = 0
    /\ weighted_sum = 0
    /\ results = NewResults("")
    /\ invocations = <<>>
    /\ \E ids \in BatchInputs :
          batch = [tweet_ids |-> ids, at |-> 1, rows |-> <<>>, calls |-> <<>>]

InBatch == batch.at \in 1..Len(batch.tweet_ids)

\* for i, tweet_id in enumerate(tweet_ids, 1): try:
\*     analysis_result = ecs.analyze_tweet_comprehensive(tweet_id)
BatchAnalyze ==
    /\ pc = "batch"
    /\ InBatch
    /\ EnterAnalysis(batch.tweet_ids[batch.at])

\* An exception raised in the part of analyze_tweet_comprehensive that no try
\* block covers (composite score, risk assessment and summary after the loop,
\* a MemoryError for one) leaves the call.
AnalysisRaises ==
    /\ pc = "loop"
    /\ idx > Len(models)
    /\ InBatch
    /\ Propagate

\* The call returned: the row is built and appended, the loop moves on.
BatchCollect ==
    /\ pc = "returned"
    /\ InBatch
    /\ batch' = [batch EXCEPT
                   !.rows = AfterResult(batch.rows, batch.tweet_ids[batch.at], results),
                   !.calls = Append(batch.calls, "returned"),
                   !.at = batch.at + 1]
    /\ pc' = "batch"
    /\ UNCHANGED << disk, model_paths, models, tweet_id, idx, total_weight,
                    weighted_sum, results, invocations >>

\* The call raised: the except branch appends the error row, the loop moves on.
BatchError ==
    /\ pc = "raised"
    /\ InBatch
    /\ IsException("MemoryError")
    /\ batch' = [batch EXCEPT
                   !.rows = AfterError(batch.rows, batch.tweet_ids[batch.at]),
                   !.calls = Append(batch.calls, "raised"),
                   !.at = batch.at + 1]
    /\ pc' = "batch"
    /\ UNCHANGED << disk, model_paths, models, tweet_id, idx, total_weight,
                    weighted_sum, results, invocations >>

\* return pd.DataFrame(results)
BatchReturn ==
    /\ pc = "batch"
    /\ batch.at > Len(batch.tweet_ids)
    /\ pc' = "batch_done"
    /\ UNCHANGED << disk, model_paths, models, tweet_id, idx, total_weight,
                    weighted_sum, results, invocations, batch >>

NextBatch ==
    \/ BatchAnalyze
    \/ SkipUnloaded
    \/ ScriptMissing
    \/ \E exc \in SpawnExceptions : SpawnFault(exc)
    \/ StartScorer
    \/ \E run \in ProcessRuns : ScorerEnds(run)
    \/ Finish
    \/ AnalysisRaises
    \/ BatchCollect
    \/ BatchError
    \/ BatchReturn

SpecBatch == InitBatch /\ [][NextBatch]_vars

\* ------------------------------------------------- scorer output literals
\* Outputs at and around the ends of the score range, with and without
\* surrounding whitespace.
LiteralStdouts ==
    { << "0" >>,
      << "1" >>,
      << "1", ".", "0", "\n" >>,
      << "0", ".", "0", "0" >>,
      << "\t", "0", ".", "2", "5", " ", "\n" >>,
      << "1", ".", "0", "1" >>,
      << "-", "0", ".", "5" >>,
      << "0", " ", "5" >> }

\* Runs that exit 0 with each of these outputs, and one that prints a valid
\* score but exits 1.
LiteralRuns ==
    { [duration |-> 1, returncode |-> 0, stdout |-> out, stderr |-> ""] :
         out \in LiteralStdouts }
    \cup { [duration |-> 1, returncode |-> 1, stdout |-> << "0", ".", "5" >>,
            stderr |-> "Traceback"] }

\* A system with the first two built-in models, both present on disk.
LiteralRegistry == SubSeq(BuiltinOrder, 1, 2)

InitLiterals ==
    /\ pc = "new"
    /\ model_paths = LiteralRegistry
    /\ disk = [m \in Range(model_paths) |-> "script"]
    /\ models = <<>>
    /\ tweet_id = ""
    /\ idx = 0
    /\ total_weight = 0
    /\ weighted_sum = 0
    /\ results = NewResults("")
    /\ invocations = <<>>
    /\ batch = NoBatch

NextLiterals ==
    \/ load_models
    \/ \E tid \in TweetIds : Analyze(tid)
    \/ StartScorer
    \/ \E run \in LiteralRuns : ScorerEnds(run)
    \/ Finish

SpecLiterals == InitLiterals /\ [][NextLiterals]_vars

\* ------------------------------------------------- scorers that never finish
\* A scorer process that never exits and writes nothing.
Hang == [duration |-> Forever, returncode |-> 0, stdout |-> <<>>, stderr |-> ""]

\* The models whose scorers hang in this environment; the others finish.
HangingScorers == {"hyperbole_falsehood", "engagement_mismatch"}

\* A system with the first three built-in models: two whose scorers hang
\* around one whose scorer finishes.
LiveRegistry == SubSeq(BuiltinOrder, 1, 3)

InitLive ==
    /\ pc = "new"
    /\ model_paths = LiveRegistry
    /\ disk \in [Range(model_paths) -> DiskStates]
    /\ models = <<>>
    /\ tweet_id = ""
    /\ idx = 0
    /\ total_weight = 0
    /\ weighted_sum = 0
    /\ results = NewResults("")
    /\ invocations = <<>>
    /\ batch = NoBatch

\* Runs of scorers that finish: a score, and a failure.
FinishingRuns ==
    { [duration |-> 1, returncode |-> 0, stdout |-> << "0", ".", "6" >>, stderr |-> ""],
      [duration |-> 1, returncode |-> 1, stdout |-> <<>>, stderr |-> "Traceback"] }

LiveRuns(model_name) ==
    IF model_name \in HangingScorers THEN {Hang} ELSE FinishingRuns

\* The steps of a running analyze_tweet_comprehensive call.
InCall ==
    \/ SkipUnloaded
    \/ ScriptMissing
    \/ \E exc \in SpawnExceptions : SpawnFault(exc)
    \/ StartScorer
    \/ /\ pc = "waiting"
       /\ \E run \in LiveRuns(models[idx].model) : ScorerEnds(run)
    \/ Finish

NextLive ==
    \/ load_models
    \/ \E tid \in TweetIds : Analyze(tid)
    \/ InCall

\* The interpreter keeps executing a call that can take a step; whether and
\* when a caller constructs the system or starts an analysis is left open.
SpecLive == InitLive /\ [][NextLive]_vars /\ WF_vars(InCall)

\* ------------------------------------------------------------------- claims
Returned == pc = "returned"

Outcomes == results.model_results

HasOutcome(m) == m \in Keys(Outcomes)

OutcomeOf(m) == Lookup(Outcomes, m)

Weighted(m) == m \in Keys(results.weighted_breakdown)

SuccessIdx == {i \in 1..Len(Outcomes) : Outcomes[i].status = "success"}

RECURSIVE SumOver(_, _)
SumOver(S, f) ==
    IF S = {} THEN 0
    ELSE LET x == CHOOSE y \in S : TRUE IN f[x] + SumOver(S \ {x}, f)

\* Numerator and denominator of the weighted mean, recomputed from the report.
MeanNumerator ==
    SumOver(SuccessIdx,
            [i \in SuccessIdx |-> Outcomes[i].score * weights[Outcomes[i].model]])

MeanDenominator ==
    SumOver(SuccessIdx, [i \in SuccessIdx |-> weights[Outcomes[i].model]])

\* C1: when analyze_tweet_comprehensive has returned, weighted_sum and
\* total_weight are the sums of score*weight and of weight over exactly the
\* outcomes with status 'success', and composite_score is their quotient; an
\* outcome with another status adds to neither.
C1_CompositeIsMeanOfSuccesses ==
    Returned =>
        /\ weighted_sum = MeanNumerator
        /\ total_weight = MeanDenominator
        /\ \A i \in 1..Len(Outcomes) :
              Outcomes[i].status # "success" => ~Weighted(Outcomes[i].model)
        /\ MeanDenominator > 0 =>
              results.composite_score.num * MeanDenominator
                 = MeanNumerator * results.composite_score.den

\* A returned report with a weighted success next to an outcome that is not one.
C1_Witness ==
    /\ Returned
    /\ \E i \in SuccessIdx : Outcomes[i].score > 0
    /\ \E i \in 1..Len(Outcomes) : Outcomes[i].status # "success"

\* C2: a loaded model whose scorer ran past the timeout is recorded with
\* status 'timeout' and has no part in the weighting.
C2_TimeoutRecorded ==
    Returned =>
        \A i \in 1..Len(invocations) :
            invocations[i].state = "killed" =>
                /\ HasOutcome(invocations[i].model)
                /\ OutcomeOf(invocations[i].model).status = "timeout"
                /\ ~Weighted(invocations[i].model)

\* C3: a scorer that exited with a non-zero status is recorded with status
\* 'error' and the captured error text, and has no part in the weighting.
C3_NonZeroExitIsError ==
    Returned =>
        \A i \in 1..Len(invocations) :
            (invocations[i].state = "exited" /\ invocations[i].run.returncode # 0) =>
                /\ HasOutcome(invocations[i].model)
                /\ OutcomeOf(invocations[i].model).status = "error"
                /\ OutcomeOf(invocations[i].model).error = invocations[i].run.stderr
                /\ ~Weighted(invocations[i].model)

\* The trimmed output is not a float literal, or is one outside [0, 1].
BadOutput(stdout) ==
    LET parsed == ParseFloat(Strip(stdout))
    IN  ~parsed.ok \/ parsed.value < 0 \/ parsed.value > Hundredths

\* C4: a scorer that exited with status 0 and an output that is no float
\* literal or lies outside [0, 1] is recorded with status 'invalid_score' and a
\* null score, and has no part in the weighting.
C4_BadOutputIsInvalidScore ==
    Returned =>
        \A i \in 1..Len(invocations) :
            (/\ invocations[i].state = "exited"
             /\ invocations[i].run.returncode = 0
             /\ BadOutput(invocations[i].run.stdout)) =>
                /\ HasOutcome(invocations[i].model)
                /\ OutcomeOf(invocations[i].model).status = "invalid_score"
                /\ OutcomeOf(invocations[i].model).score = None
                /\ ~Weighted(invocations[i].model)

\* C5: the returned model_results holds exactly one outcome for every
\* registered model; a model that was not loaded has status
\* 'skipped_unloaded' and no part in the weighting.
C5_EveryModelReported ==
    Returned =>
        /\ Len(Outcomes) = Len(models)
        /\ \A i \in 1..Len(models) :
              /\ HasOutcome(models[i].model)
              /\ ~models[i].loaded =>
                    /\ OutcomeOf(models[i].model).status = "skipped_unloaded"
                    /\ ~Weighted(models[i].model)

\* A scorer invocation that did not deliver a score in [0, 1].
FailedInvocation(inv) ==
    \/ inv.state \in {"missing", "fault", "killed"}
    \/ inv.state = "exited" /\ inv.run.returncode # 0
    \/ inv.state = "exited" /\ inv.run.returncode = 0 /\ BadOutput(inv.run.stdout)

NoScorerSucceeded ==
    \A i \in 1..Len(invocations) : FailedInvocation(invocations[i])

\* C6: a run in which no model produced a valid score (empty model set, or
\* every scorer failing) returns composite_score 0.0 and risk level MINIMAL,
\* and no model contributes weight.
C6_AllFailedIsZeroMinimal ==
    (Returned /\ NoScorerSucceeded) =>
        /\ results.composite_score.num = 0
        /\ results.risk_assessment.risk_level = "MINIMAL"
        /\ total_weight = 0
        /\ results.weighted_breakdown = <<>>

\* C7: the risk level of a returned report is the threshold function of its
\* composite score c with closed lower bounds: c >= 0.8 CRITICAL,
\* 0.6 <= c < 0.8 HIGH, 0.4 <= c < 0.6 MODERATE, 0.2 <= c < 0.4 LOW,
\* c < 0.2 MINIMAL.
C7_RiskLevelThresholds ==
    Returned =>
        LET n == results.composite_score.num
            d == results.composite_score.den
            level == results.risk_assessment.risk_level
        IN  /\ n >= 80 * d => level = "CRITICAL"
            /\ (60 * d <= n /\ n < 80 * d) => level = "HIGH"
            /\ (40 * d <= n /\ n < 60 * d) => level = "MODERATE"
            /\ (20 * d <= n /\ n < 40 * d) => level = "LOW"
            /\ n < 20 * d => level = "MINIMAL"

\* A returned report whose composite score is exactly 0.6, classified HIGH.
C7_Witness ==
    /\ Returned
    /\ total_weight > 0
    /\ results.composite_score.num = 60 * results.composite_score.den
    /\ results.risk_assessment.risk_level = "HIGH"

TopFactors == results.risk_assessment.top_risk_factors

InTop(m) == m \in Keys(TopFactors)

Qualifying == {i \in 1..Len(Outcomes) :
                  Outcomes[i].status = "success" /\ Outcomes[i].score > 50}

OutcomeImpact(i) == Outcomes[i].score * weights[Outcomes[i].model]

MinOf(a, b) == IF a < b THEN a ELSE b

\* C9: top_risk_factors of a returned report holds only models with status
\* 'success' and score > 0.5, each once, ordered by score*weight
\* non-increasing, the first three of them at most, and no qualifying model
\* left out has a larger score*weight than one that is in.
C9_TopRiskFactors ==
    Returned =>
        /\ \A k \in 1..Len(TopFactors) :
              /\ HasOutcome(TopFactors[k].model)
              /\ OutcomeOf(TopFactors[k].model).status = "success"
              /\ OutcomeOf(TopFactors[k].model).score > 50
              /\ TopFactors[k].score = OutcomeOf(TopFactors[k].model).score
              /\ TopFactors[k].weight = weights[TopFactors[k].model]
        /\ \A k, l \in 1..Len(TopFactors) :
              k < l => /\ TopFactors[k].model # TopFactors[l].model
                       /\ Impact(TopFactors[k]) >= Impact(TopFactors[l])
        /\ Len(TopFactors) = MinOf(TopN, Cardinality(Qualifying))
        /\ \A i \in Qualifying :
              ~InTop(Outcomes[i].model) =>
                  \A k \in 1..Len(TopFactors) : OutcomeImpact(i) <= Impact(TopFactors[k])

\* A returned report in which more models qualify than the list keeps.
C9_Witness ==
    /\ Returned
    /\ Cardinality(Qualifying) > TopN
    /\ Len(TopFactors) = TopN

\* Position of a model in the registry / in the ranked list.
RegistryPos(m) == CHOOSE i \in 1..Len(models) : models[i].model = m

TopPos(m) == CHOOSE k \in 1..Len(TopFactors) : TopFactors[k].model = m

\* C10: of two qualifying models with the same score*weight, the one
\* registered first comes first in top_risk_factors, and is the one kept when
\* the cut at three entries falls between them.
C10_TiesKeepRegistrationOrder ==
    Returned =>
        \A i, j \in Qualifying :
            (/\ RegistryPos(Outcomes[i].model) < RegistryPos(Outcomes[j].model)
             /\ OutcomeImpact(i) = OutcomeImpact(j)
             /\ InTop(Outcomes[j].model)) =>
                /\ InTop(Outcomes[i].model)
                /\ TopPos(Outcomes[i].model) < TopPos(Outcomes[j].model)

\* A returned report where the cut falls between two models of equal
\* score*weight: the one registered first is the last entry kept.
C10_Witness ==
    /\ Returned
    /\ \E i, j \in Qualifying :
          /\ RegistryPos(Outcomes[i].model) < RegistryPos(Outcomes[j].model)
          /\ OutcomeImpact(i) = OutcomeImpact(j)
          /\ InTop(Outcomes[i].model)
          /\ ~InTop(Outcomes[j].model)

RiskLevels == {"CRITICAL", "HIGH", "MODERATE", "LOW", "MINIMAL"}

\* C11: no combination of scorer behaviours (timeout, non-zero exit,
\* unparseable or out-of-range output, missing script, spawn fault, failed
\* lookup) makes analyze_tweet_comprehensive raise: the call never leaves
\* through an exception, and when it has returned the report is complete
\* (every loaded model has an outcome, the risk level is assigned).
C11_NeverRaises ==
    /\ pc # "raised"
    /\ Returned =>
          /\ results.risk_assessment.risk_level \in RiskLevels
          /\ results.summary.risk_level \in RiskLevels
          /\ \A i \in 1..Len(models) : models[i].loaded => HasOutcome(models[i].model)

\* A returned report of a run in which one scorer could not be spawned, one
\* was killed at the timeout, one exited non-zero and one printed no valid score.
C11_Witness ==
    /\ Returned
    /\ \E i \in 1..Len(invocations) : invocations[i].state = "fault"
    /\ \E i \in 1..Len(invocations) : invocations[i].state = "killed"
    /\ \E i \in 1..Len(invocations) :
          invocations[i].state = "exited" /\ invocations[i].run.returncode # 0
    /\ \E i \in 1..Len(invocations) :
          /\ invocations[i].state = "exited"
          /\ invocations[i].run.returncode = 0
          /\ BadOutput(invocations[i].run.stdout)

\* What one model's own scorer invocation determines, whatever the others did.
OwnScore(inv) ==
    IF FailedInvocation(inv) THEN 0 ELSE ParseFloat(Strip(inv.run.stdout)).value

Finished(inv) == inv.state # "running"

\* C12: isolation, stated as the trace property that implies it: at every
\* point of a run the recorded status and score of a model are a function of
\* that model's own scorer invocation only, so two runs that differ in another
\* model's scorer (result, fault, timeout, slowness) record the same for it.
C12_OutcomeDependsOnOwnScorerOnly ==
    /\ \A i \in 1..Len(invocations) :
          Finished(invocations[i]) =>
              /\ HasOutcome(invocations[i].model)
              /\ OutcomeOf(invocations[i].model).status = "success"
              /\ OutcomeOf(invocations[i].model).score = OwnScore(invocations[i])
    /\ \A m \in Keys(Outcomes) :
          (\A i \in 1..Len(invocations) : invocations[i].model # m) =>
              OutcomeOf(m).status = "error" /\ OutcomeOf(m).score = None

\* A returned report where a scorer that delivered a score ran before one
\* that timed out and after one that exited non-zero.
C12_Witness ==
    /\ Returned
    /\ \E i, j, k \in 1..Len(invocations) :
          /\ i < j /\ j < k
          /\ invocations[i].state = "exited" /\ invocations[i].run.returncode # 0
          /\ ~FailedInvocation(invocations[j]) /\ OwnScore(invocations[j]) > 0
          /\ invocations[k].state = "killed"
          /\ OutcomeOf(invocations[j].model).score = OwnScore(invocations[j])

\* C13: model_results lists the outcomes in registration order (the order of
\* model_paths, which load_models gives to the registry), whichever models
\* succeed or fail.
C13_OutcomesInRegistrationOrder ==
    /\ pc # "new" =>
          /\ Len(models) = Len(model_paths)
          /\ \A i \in 1..Len(models) : models[i].model = model_paths[i]
    /\ \A i, j \in 1..Len(Outcomes) :
          i < j => RegistryPos(Outcomes[i].model) < RegistryPos(Outcomes[j].model)

\* A returned report with three outcomes or more, the first of a scorer that
\* failed, and an unloaded model registered before the last one.
C13_Witness ==
    /\ Returned
    /\ Len(Outcomes) >= 3
    /\ FailedInvocation(invocations[1])
    /\ \E i \in 1..Len(models) :
          /\ ~models[i].loaded
          /\ i < RegistryPos(Outcomes[Len(Outcomes)].model)

\* The decimal numerals of 0 .. 10, written out.
Numerals ==
    << << "0" >>, << "1" >>, << "2" >>, << "3" >>, << "4" >>, << "5" >>,
       << "6" >>, << "7" >>, << "8" >>, << "9" >>, << "1", "0" >> >>

Numeral(n) == Numerals[n + 1]

SummaryKeys ==
    {"models_analyzed", "composite_score", "risk_level", "recommendations",
     "analysis_confidence"}

\* C15: _generate_summary, given a mapping that holds only composite_score and
\* model_results with four outcomes of which three have status 'success',
\* returns a summary with the five keys and models_analyzed = '3/4'.
C15_SummaryOfBareResults ==
    (/\ pc \in {"summary_done", "raised"}
     /\ "risk_assessment" \notin DOMAIN results
     /\ Len(results.model_results) = 4
     /\ SuccessCount(results.model_results) = 3) =>
        /\ pc = "summary_done"
        /\ SummaryKeys \subseteq DOMAIN results.summary
        /\ results.summary.models_analyzed = << "3", "/", "4" >>

\* C16: analysis_confidence is 'high' when at least 7 outcomes have status
\* 'success', 'medium' when 4 to 6 have, 'low' when at most 3 have.
C16_ConfidenceThresholds ==
    pc = "summary_done" =>
        LET s == SuccessCount(results.model_results)
            label == results.summary.analysis_confidence
        IN  /\ s >= 7 => label = "high"
            /\ (4 <= s /\ s <= 6) => label = "medium"
            /\ s <= 3 => label = "low"

\* A summary made of exactly seven successful outcomes, labelled 'high'.
C16_Witness ==
    /\ pc = "summary_done"
    /\ SuccessCount(results.model_results) = 7
    /\ results.summary.analysis_confidence = "high"

\* C17: the recommendations of a returned report depend on the composite
\* score c only: c >= 0.6 gives manual review, pattern monitoring and pattern
\* review; 0.4 <= c < 0.6 gives pattern review only; 0.2 <= c < 0.4 gives
\* nothing; c < 0.2 gives 'engagement appears genuine' only.
C17_RecommendationTriggers ==
    Returned =>
        LET n == results.composite_score.num
            d == results.composite_score.den
            list == results.summary.recommendations
        IN  /\ n >= 60 * d =>
                 list = << "Consider flagging for manual review",
                           "Monitor for similar patterns",
                           "Review engagement patterns" >>
            /\ (40 * d <= n /\ n < 60 * d) => list = << "Review engagement patterns" >>
            /\ (20 * d <= n /\ n < 40 * d) => list = <<>>
            /\ n < 20 * d => list = << "Engagement appears genuine" >>

\* A returned report with composite score exactly 0.6 and all three items.
C17_Witness ==
    /\ Returned
    /\ total_weight > 0
    /\ results.composite_score.num = 60 * results.composite_score.den
    /\ Len(results.summary.recommendations) = 3

\* C18: load_models does not raise and invokes no scorer; when it has
\* returned, every identifier of model_paths has exactly one registry entry,
\* loaded exactly when its directory and its simple_score.py exist, and
\* otherwise not loaded with a non-empty reason.
C18_LoadModelsRegistersEveryPath ==
    pc # "new" =>
        /\ Len(models) = Len(model_paths)
        /\ \A i \in 1..Len(model_paths) :
              /\ models[i].model = model_paths[i]
              /\ models[i].loaded <=> disk[model_paths[i]] = "script"
              /\ ~models[i].loaded => models[i].error # ""
        /\ \A i, j \in 1..Len(models) : models[i].model = models[j].model => i = j
        /\ pc = "ready" => invocations = <<>>

\* load_models has returned with a loaded model, one whose directory is
\* missing and one whose script is missing, the extra path among them.
C18_Witness ==
    /\ pc = "ready"
    /\ \E i, j, k \in 1..Len(models) :
          /\ models[i].loaded
          /\ disk[models[j].model] = "no_directory" /\ ~models[j].loaded
          /\ disk[models[k].model] = "no_script" /\ ~models[k].loaded
    /\ ExtraModel \in Keys(models)

\* Exactly three outcomes have status 'success': 0.8 with weight 1.0, 0.6 with
\* weight 0.6 and 0.4 with weight 0.6.
ScenarioOne ==
    /\ Cardinality(SuccessIdx) = 3
    /\ \E a, b, c \in SuccessIdx :
          /\ a # b /\ b # c /\ a # c
          /\ Outcomes[a].score = 80 /\ weights[Outcomes[a].model] = 10
          /\ Outcomes[b].score = 60 /\ weights[Outcomes[b].model] = 6
          /\ Outcomes[c].score = 40 /\ weights[Outcomes[c].model] = 6

\* C19 as stated: with exactly three models succeeding with 0.8 (weight 1.0),
\* 0.6 (weight 0.6) and 0.4 (weight 0.6) the composite score is 1.04 / 2.2,
\* shown as 0.473, and the risk level is MODERATE.
C19_ScenarioOneAsStated ==
    (Returned /\ ScenarioOne) =>
        /\ results.composite_score.num * 22 = 1040 * results.composite_score.den
        /\ results.summary.composite_score = 473
        /\ results.risk_assessment.risk_level = "MODERATE"

\* C19 amended: in that scenario the weighted sum is 0.8 + 0.36 + 0.24 = 1.40,
\* the composite score is 1.40 / 2.2, shown as 0.636, and the risk level is HIGH.
C19_ScenarioOne ==
    (Returned /\ ScenarioOne) =>
        /\ weighted_sum = 1400
        /\ total_weight = 22
        /\ results.composite_score.num * 22 = 1400 * results.composite_score.den
        /\ results.summary.composite_score = 636
        /\ results.risk_assessment.risk_level = "HIGH"

\* The scenario has been run to its report.
C19_Witness ==
    /\ Returned
    /\ ScenarioOne
    /\ Len(invocations) = 3
    /\ \A i \in 1..3 : invocations[i].state = "exited"

\* C20: analyze_tweets_batch produces exactly one row per input identifier, in
\* input order: while it runs the rows are those of the identifiers already
\* handled, when it returns there is one row for each identifier; a call that
\* raised left a row with risk_level 'ERROR' and composite_score 0.0, a call
\* that returned left a row carrying its report, and the loop went on to the
\* identifiers after it.
C20_OneRowPerIdentifier ==
    /\ pc \in {"batch", "batch_done"} =>
          /\ Len(batch.rows) = batch.at - 1
          /\ Len(batch.calls) = batch.at - 1
    /\ pc \in {"loop", "waiting", "returned", "raised"} =>
          /\ batch.at \in 1..Len(batch.tweet_ids)
          /\ Len(batch.rows) = batch.at - 1
    /\ pc = "batch_done" => Len(batch.rows) = Len(batch.tweet_ids)
    /\ \A i \in 1..Len(batch.rows) :
          /\ batch.rows[i].tweet_id = batch.tweet_ids[i]
          /\ i <= Len(batch.calls) =>
                /\ batch.calls[i] = "raised" =>
                      /\ batch.rows[i].risk_level = "ERROR"
                      /\ batch.rows[i].composite_score.num = 0
                /\ batch.calls[i] = "returned" =>
                      batch.rows[i].risk_level \in RiskLevels

\* A batch of two different identifiers has returned; the analysis of the
\* first raised and the analysis of the second returned a report.
C20_Witness ==
    /\ pc = "batch_done"
    /\ Len(batch.tweet_ids) >= 2
    /\ batch.tweet_ids[1] # batch.tweet_ids[2]
    /\ batch.calls[1] = "raised"
    /\ batch.calls[2] = "returned"
    /\ batch.rows[2].risk_level \in RiskLevels

\* The invocation exited with status 0 and its trimmed output is a float
\* literal within [0, 1].
DeliveredScore(inv) ==
    /\ inv.state = "exited"
    /\ inv.run.returncode = 0
    /\ ~BadOutput(inv.run.stdout)

\* C21: the step in which a scorer ends with exit status 0 and a trimmed
\* output that is a float literal v with 0 <= v <= 1 records the model with
\* status 'success' and score v, and adds v * weight to weighted_sum and
\* weight to total_weight.
C21_ValidOutputIsSuccess ==
    [][ (/\ pc = "waiting"
         /\ pc' = "loop"
         /\ DeliveredScore(invocations'[Len(invocations')])) =>
            LET m == models[idx].model
                v == ParseFloat(Strip(invocations'[Len(invocations')].run.stdout)).value
            IN  /\ m \in Keys(results'.model_results)
                /\ Lookup(results'.model_results, m).status = "success"
                /\ Lookup(results'.model_results, m).score = v
                /\ weighted_sum' = weighted_sum + v * weights[m]
                /\ total_weight' = total_weight + weights[m] ]_vars

\* A returned report where the first scorer printed "1" and the second "0":
\* both are successes, with scores 1.0 and 0.0, and both weights count.
C21_Witness ==
    /\ Returned
    /\ Len(invocations) = 2
    /\ DeliveredScore(invocations[1]) /\ invocations[1].run.stdout = << "1" >>
    /\ DeliveredScore(invocations[2]) /\ invocations[2].run.stdout = << "0" >>
    /\ OutcomeOf(invocations[1].model).score = Hundredths
    /\ OutcomeOf(invocations[2].model).score = 0
    /\ OutcomeOf(invocations[2].model).status = "success"
    /\ weighted_sum = Hundredths * weights[invocations[1].model]
    /\ total_weight = weights[invocations[1].model] + weights[invocations[2].model]

\* The statuses the specification lists for an outcome.
ListedStatuses ==
    {"success", "invalid_score", "key_not_found", "error", "timeout",
     "skipped_unloaded"}

\* C22: at every point of an analysis, every status recorded in model_results
\* is one of success, invalid_score, key_not_found, error, timeout,
\* skipped_unloaded.
C22_StatusesAreListed ==
    \A i \in 1..Len(Outcomes) : Outcomes[i].status \in ListedStatuses

\* A returned report holding an outcome recorded by the success branch after
\* a scorer failed and one recorded by the outer exception handler.
C22_Witness ==
    /\ Returned
    /\ \E i \in 1..Len(invocations) :
          /\ FailedInvocation(invocations[i])
          /\ OutcomeOf(invocations[i].model).status = "success"
    /\ \E i \in 1..Len(Outcomes) : Outcomes[i].status = "error"

\* The invocation started a scorer process.
Spawned(inv) == inv.state \in {"running", "exited", "killed"}

\* C23: within one analysis run no scorer is run, or looked for, for a model
\* that failed availability validation; every loaded model has at most one
\* invocation, and its sole argument is the identifier under analysis.
C23_InvokedOnceIfLoaded ==
    pc \in {"loop", "waiting", "returned"} =>
        /\ \A i \in 1..Len(invocations) :
              /\ invocations[i].model \in Keys(models)
              /\ Lookup(models, invocations[i].model).loaded
              /\ invocations[i].argv = << tweet_id >>
        /\ \A i, j \in 1..Len(invocations) :
              invocations[i].model = invocations[j].model => i = j

\* A returned report of a run over a registry with an unavailable model
\* between two loaded ones whose scorers were both started.
C23_Witness ==
    /\ Returned
    /\ tweet_id \in TweetIds
    /\ \E a, b, c \in 1..Len(models) :
          /\ a < b /\ b < c
          /\ models[a].loaded /\ ~models[b].loaded /\ models[c].loaded
          /\ \E i, j \in 1..Len(invocations) :
                /\ invocations[i].model = models[a].model /\ Spawned(invocations[i])
                /\ invocations[j].model = models[c].model /\ Spawned(invocations[j])
          /\ \A i \in 1..Len(invocations) : invocations[i].model # models[b].model

InFlight == {i \in 1..Len(invocations) : invocations[i].state = "running"}

\* C24: scorer invocations of one run are strictly sequential: at most one
\* scorer is in flight, it is the latest one started, every invocation before
\* it has ended (completed or killed at the timeout) and has its outcome
\* recorded while the one in flight has none yet, and invocations follow
\* registration order.
C24_OneScorerAtATime ==
    /\ Cardinality(InFlight) <= 1
    /\ InFlight # {} <=> pc = "waiting"
    /\ \A i \in InFlight :
          /\ i = Len(invocations)
          /\ ~HasOutcome(invocations[i].model)
    /\ \A i \in 1..Len(invocations) :
          Finished(invocations[i]) => HasOutcome(invocations[i].model)
    /\ \A i, j \in 1..Len(invocations) :
          i < j => RegistryPos(invocations[i].model) < RegistryPos(invocations[j].model)

\* A scorer is in flight after an earlier one was killed at the timeout and
\* another completed.
C24_Witness ==
    /\ pc = "waiting"
    /\ Len(invocations) >= 3
    /\ \E i, j \in 1..(Len(invocations) - 1) :
          /\ invocations[i].state = "killed"
          /\ invocations[j].state = "exited"
    /\ invocations[Len(invocations)].state = "running"

\* C25: the timeout is a budget of each invocation, counted from its own
\* start: a scorer is reported as killed at the timeout exactly when its own
\* run lasted longer than 30 units, however much time the invocations before
\* it took; one that ends within 30 units of its start is recorded from its
\* own exit status and output.
C25_TimeoutPerInvocation ==
    \A i \in 1..Len(invocations) :
        invocations[i].state \in {"exited", "killed"} =>
            /\ invocations[i].state = "killed" <=> invocations[i].run.duration > TIMEOUT
            /\ (/\ ElapsedBefore(i) + invocations[i].run.duration > TIMEOUT
                /\ invocations[i].run.duration <= TIMEOUT) =>
                   /\ invocations[i].state = "exited"
                   /\ OutcomeOf(invocations[i].model).score = OwnScore(invocations[i])

\* A scorer started after an earlier one had used up 30 units finished
\* within its own budget and its score was recorded.
C25_Witness ==
    /\ Returned
    /\ \E i, j \in 1..Len(invocations) :
          /\ i < j
          /\ invocations[i].state = "killed"
          /\ ElapsedBefore(j) >= TIMEOUT
          /\ DeliveredScore(invocations[j])
          /\ OutcomeOf(invocations[j].model).score > 0
          /\ OutcomeOf(invocations[j].model).score = OwnScore(invocations[j])

\* C26: analyze_tweet_comprehensive always terminates, also when scorers
\* never finish on their own: a call that has entered its loop returns; a
\* scorer that does not finish on its own ends killed at the timeout, after
\* which the loop is past its model; and when the call has returned no scorer
\* it started is still running.
C26_AlwaysTerminates ==
    /\ (pc \in {"loop", "waiting"}) ~> (pc = "returned")
    /\ [](\A i \in 1..Len(invocations) :
             /\ (Finished(invocations[i]) /\ invocations[i].run = Hang) =>
                    invocations[i].state = "killed"
             /\ invocations[i].state = "killed" =>
                    RegistryPos(invocations[i].model) < idx
             /\ pc = "returned" => invocations[i].state # "running")

\* A call has returned after killing two scorers that never finish and
\* running one that did.
C26_Witness ==
    /\ Returned
    /\ \E i, j, k \in 1..Len(invocations) :
          /\ i < j
          /\ invocations[i].run = Hang /\ invocations[i].state = "killed"
          /\ invocations[j].run = Hang /\ invocations[j].state = "killed"
          /\ invocations[k].state = "exited"

\* C27: no step of analyze_tweet_comprehensive, whatever the scorers do,
\* changes the registry: once load_models has run, self.models (the models
\* and their loaded marks and errors) and self.model_paths stay as they are
\* through every analysis, so each analysis meets the same model set.  The
\* weights, analysis methods and score keys are assigned in __init__ only.
C27_RegistryUnchanged ==
    [][ pc # "new" =>
           /\ models' = models
           /\ model_paths' = model_paths
           /\ Keys(models') = Range(model_paths') ]_vars

\* A call has returned after a spawn fault, a timeout and a failed scorer,
\* over a registry that holds an unavailable model and the extra path.
C27_Witness ==
    /\ Returned
    /\ \E i \in 1..Len(models) : ~models[i].loaded
    /\ ExtraModel \in Keys(models)
    /\ \E i \in 1..Len(invocations) : invocations[i].state = "fault"
    /\ \E i \in 1..Len(invocations) : invocations[i].state = "killed"
    /\ \E i \in 1..Len(invocations) :
          invocations[i].state = "exited" /\ invocations[i].run.returncode # 0
    /\ Keys(models) = Range(model_paths)

\* Only built-in models are registered.
BuiltinConfiguration == Keys(models) \subseteq Range(BuiltinOrder)

LoadedIdx == {i \in 1..Len(models) : models[i].loaded}

\* C28: with the built-in configuration every loaded model ends a run with
\* status 'success' whatever its scorer did; a timeout, a non-zero exit,
\* unparseable or out-of-range output and a script missing at run time are
\* recorded as score 0.0; total_weight is the sum of the weights of all loaded
\* models; and 'invalid_score' and 'score_not_found' are never recorded.
C28_LoadedAlwaysSucceeds ==
    /\ \A i \in 1..Len(Outcomes) :
          Outcomes[i].status \notin {"invalid_score", "score_not_found"}
    /\ (Returned /\ BuiltinConfiguration) =>
          /\ \A i \in LoadedIdx :
                /\ HasOutcome(models[i].model)
                /\ OutcomeOf(models[i].model).status = "success"
          /\ \A i \in 1..Len(invocations) :
                FailedInvocation(invocations[i]) =>
                    OutcomeOf(invocations[i].model).score = 0
          /\ total_weight = SumOver(LoadedIdx, [i \in LoadedIdx |-> weights[models[i].model]])

\* A returned report over built-in models whose scorers respectively were
\* missing at run time, were killed at the timeout, exited non-zero and
\* printed no valid score: all four weights count.
C28_Witness ==
    /\ Returned
    /\ BuiltinConfiguration
    /\ Cardinality(LoadedIdx) = 4
    /\ total_weight = 33
    /\ \E i \in 1..Len(invocations) : invocations[i].state = "missing"
    /\ \E i \in 1..Len(invocations) : invocations[i].state = "killed"
    /\ \E i \in 1..Len(invocations) :
          invocations[i].state = "exited" /\ invocations[i].run.returncode # 0
    /\ \E i \in 1..Len(invocations) :
          /\ invocations[i].state = "exited"
          /\ invocations[i].run.returncode = 0
          /\ BadOutput(invocations[i].run.stdout)

Breakdown == results.weighted_breakdown

BreakdownIdx == 1..Len(Breakdown)

\* C29: in every returned report the keys of weighted_breakdown are the
\* models recorded with status 'success'; each entry carries that model's
\* recorded score as raw_score, its configured weight, and their product as
\* weighted_contribution; and when the breakdown is not empty composite_score
\* is the sum of the contributions over the sum of the weights in it.
C29_BreakdownMatchesSuccesses ==
    Returned =>
        /\ Keys(Breakdown) = {Outcomes[i].model : i \in SuccessIdx}
        /\ \A k, l \in BreakdownIdx : Breakdown[k].model = Breakdown[l].model => k = l
        /\ \A k \in BreakdownIdx :
              /\ Breakdown[k].raw_score = OutcomeOf(Breakdown[k].model).score
              /\ Breakdown[k].weight = weights[Breakdown[k].model]
              /\ Breakdown[k].weighted_contribution
                    = Breakdown[k].raw_score * Breakdown[k].weight
        /\ Breakdown # <<>> =>
              results.composite_score.num
                    * SumOver(BreakdownIdx, [k \in BreakdownIdx |-> Breakdown[k].weight])
                 = SumOver(BreakdownIdx,
                           [k \in BreakdownIdx |-> Breakdown[k].weighted_contribution])
                    * results.composite_score.den

\* A returned report with two different scores in the breakdown and an
\* outcome with status 'error' outside it.
C29_Witness ==
    /\ Returned
    /\ \E k, l \in BreakdownIdx :
          /\ Breakdown[k].raw_score > 0
          /\ Breakdown[l].raw_score > Breakdown[k].raw_score
          /\ Breakdown[k].weight # Breakdown[l].weight
    /\ \E i \in 1..Len(Outcomes) :
          Outcomes[i].status = "error" /\ Outcomes[i].model \notin Keys(Breakdown)
    /\ results.composite_score.num > 0

\* The level of a quotient c (in hundredths): one step up from MINIMAL for
\* each of the thresholds 0.2, 0.4, 0.6 and 0.8 that c reaches.
Classified(c) ==
    LET reached == {t \in {20, 40, 60, 80} : c.num >= t * c.den}
    IN  << "MINIMAL", "LOW", "MODERATE", "HIGH", "CRITICAL" >>[Cardinality(reached) + 1]

\* C30: in every returned report the three views agree:
\* risk_assessment.composite_score is the top-level composite_score,
\* summary.risk_level is risk_assessment.risk_level, and that level is the
\* threshold classification of the top-level composite_score.
C30_ViewsAgree ==
    Returned =>
        /\ results.risk_assessment.composite_score = results.composite_score
        /\ results.summary.risk_level = results.risk_assessment.risk_level
        /\ results.risk_assessment.risk_level = Classified(results.composite_score)

\* A returned report with a composite score above 0.4 and below 0.6, which
\* all three views show as MODERATE.
C30_Witness ==
    /\ Returned
    /\ results.composite_score.num > 40 * results.composite_score.den
    /\ results.composite_score.num < 60 * results.composite_score.den
    /\ results.risk_assessment.composite_score.num > 0
    /\ results.summary.risk_level = "MODERATE"
    /\ results.risk_assessment.risk_level = "MODERATE"

====
